---- MODULE Spec2Model ----
(***************************************************************************)
(* Model of company_data_scraper.py: the crawl of the paginated listing    *)
(* of certified companies, the extraction of one company's detail page     *)
(* and the classification of its outbound links.                           *)
(*                                                                         *)
(* A Python str is a sequence of symbols (TLA+ strings used as atoms), so  *)
(* that split, int, the f-string of the page URL and the substring test of *)
(* the link classifier are computed, not assumed.  None is the one-symbol  *)
(* sequence <<"None">>, which no modelled str equals.  An uncaught Python  *)
(* exception is the record `raised` together with pc = "aborted".          *)
(***************************************************************************)
EXTENDS Integers, Sequences, FiniteSets, TLC

VARIABLES
    pc,                  \* position of the script
    raised,              \* the uncaught exception, if any
    home_soup,           \* soup of the homepage inside get_website_num_pages
    number_of_pages,     \* local of get_pages_url_list
    pages_url_list,      \* local of CompaniesDataScraper
    page_idx,            \* position of the for loop over pages_url_list
    fetched_pages,       \* history: the listing soups returned by get_url_soup
    soup,                \* listing soup handed to scrape_page_companies
    company_idx,         \* position of the for loop over all_companies
    company_soup,        \* soup of the detail page in scrape_one_company_data
    output_dict,         \* result of scrape_one_company_data
    page_companies_list, \* local of scrape_page_companies
    all_companies_list,  \* local of CompaniesDataScraper
    results_df           \* the emitted dataset (rows of the csv)

vars == <<pc, raised, home_soup, number_of_pages, pages_url_list, page_idx,
          fetched_pages, soup, company_idx, company_soup, output_dict,
          page_companies_list, all_companies_list, results_df>>

(***************************************************************************)
(* Bounds of the model.                                                    *)
(***************************************************************************)
MaxNavLinks == 2     \* links inside the pagenav block
MaxArticles == 2     \* article containers on one listing page
MaxHrefLen == 4      \* symbols of the last pagination href in SpecPages
MaxDetails == 4      \* sub-heading elements on a detail page in SpecDetail
MaxLinks == 2        \* tooltip links on a detail page in SpecDetail

(***************************************************************************)
(* Python values.                                                          *)
(***************************************************************************)
None == <<"None">>
NoSoup == [kind |-> "nosoup"]
NoException == [where |-> "none", exc |-> "none"]
Exception(where, exc) == [where |-> where, exc |-> exc]
Ok(v) == [exc |-> "none", val |-> v]
Raise(e) == [exc |-> e, val |-> None]

Last(s) == s[Len(s)]
SeqsUpTo(S, n) == UNION {[1..k -> S] : k \in 0..n}

Digits == <<"0", "1", "2", "3", "4", "5", "6", "7", "8", "9">>
IsDigit(c) == \E i \in 1..10 : Digits[i] = c
DigitVal(c) == (CHOOSE i \in 1..10 : Digits[i] = c) - 1

\* str.split('/')
RECURSIVE split(_)
split(s) ==
    IF s = <<>> THEN << <<>> >>
    ELSE LET rest == split(Tail(s)) IN
         IF Head(s) = "/" THEN << <<>> >> \o rest
         ELSE << <<Head(s)>> \o Head(rest) >> \o Tail(rest)

\* value of a non-empty string of decimal digits
RECURSIVE DigitsValue(_)
DigitsValue(s) ==
    IF s = <<>> THEN 0 ELSE 10 * DigitsValue(SubSeq(s, 1, Len(s) - 1)) + DigitVal(Last(s))

\* int(str): an optional sign, then one or more decimal digits; anything
\* else is a ValueError.  (Whitespace, '+' and '_' are not in the alphabet
\* of the modelled hrefs.)
int(s) ==
    LET body == IF s # <<>> /\ Head(s) = "-" THEN Tail(s) ELSE s IN
    IF body = <<>> \/ \E i \in 1..Len(body) : ~IsDigit(body[i])
    THEN Raise("ValueError")
    ELSE Ok(IF body = s THEN DigitsValue(body) ELSE 0 - DigitsValue(body))

\* str(int) of the f-string, for page >= 0
RECURSIVE str(_)
str(n) == IF n < 10 THEN <<Digits[n + 1]>> ELSE str(n \div 10) \o <<Digits[(n % 10) + 1]>>


(***************************************************************************)
(* Documents.  A homepage soup is what get_website_num_pages reads of it:  *)
(* whether div.pagenav exists and the hrefs of its links.  A listing soup  *)
(* is the sequence of its article containers, each the sequence of the     *)
(* hrefs of its rel=bookmark links.  A detail soup is whether the h1       *)
(* exists, its .string, the .string of every sub-heading div and the hrefs *)
(* of the tooltip links, all in document order.                            *)
(***************************************************************************)
homepage_url == <<"https://greatplacetowork.es/certificadas/">>
PagePath == <<"p", "a", "g", "e", "/">>

HrefSymbols == {"/", "p", "-", "0", "1", "2"}
NavHrefs == { <<"p">>, <<"p", "/", "p", "/">>, <<"p", "/", "0", "/">>,
              <<"p", "/", "1", "/">>, <<"p", "/", "2", "/">> }
HomeDoc(nav, links) == [pagenav |-> nav, links |-> links]
HomeDocs ==
    {HomeDoc(FALSE, <<>>)} \cup {HomeDoc(TRUE, l) : l \in SeqsUpTo(NavHrefs, MaxNavLinks)}
PagesHomeDocs ==
    {HomeDoc(TRUE, pre \o <<h>>) :
        pre \in SeqsUpTo(NavHrefs, MaxNavLinks - 1), h \in SeqsUpTo(HrefSymbols, MaxHrefLen)}

CoA == <<"/co-a/">>
CoB == <<"/co-b/">>
Articles == { <<>>, <<CoA>>, <<CoB>>, <<CoA, CoB>> }
ListingDocs == SeqsUpTo(Articles, MaxArticles)

LinkedinUrl == <<"linkedin", "acme">>
WebsiteUrl == <<"acme">>
ThreeDetails == << <<"500">>, <<"Tech">>, <<"Madrid">> >>
DetailDoc(found, name, details, links) ==
    [has_h1 |-> found, h1_string |-> name, details |-> details, links |-> links]
SiteName(company_url) == <<"name of">> \o company_url
SiteLinks(company_url) == IF company_url = CoA THEN <<LinkedinUrl, WebsiteUrl>> ELSE <<>>
DetailDocs(company_url) ==
    {DetailDoc(f, SiteName(company_url), d, SiteLinks(company_url)) :
        f \in BOOLEAN, d \in {<<>>, ThreeDetails}}

DetailStrings == { <<"500">>, <<"Tech">>, None }
LinkTokens == {"linkedin", "twitter", "instagram", "facebook", "acme"}
Urls == SeqsUpTo(LinkTokens, 2) \ {<<>>}
DetailInputs ==
    {DetailDoc(f, n, d, <<LinkedinUrl, WebsiteUrl>>) :
        f \in BOOLEAN, n \in {<<"Acme">>, None}, d \in SeqsUpTo(DetailStrings, MaxDetails)}
    \cup {DetailDoc(TRUE, <<"Acme">>, ThreeDetails, l) : l \in SeqsUpTo(Urls, MaxLinks)}

(***************************************************************************)
(* The functions of the program.                                           *)
(***************************************************************************)
\* Faulty variant of get_company_info: a positional partial match on a short page.
get_company_info_partial(s) ==
    LET company_details == s.details
        at(i) == IF i <= Len(company_details) THEN company_details[i] ELSE None
    IN [number_of_employees |-> at(1), sector |-> at(2), headquarters |-> at(3)]

\* get_company_info: indexing [0], [1], [2] raises IndexError on fewer than
\* three elements, and the bare except turns that into three nulls.
get_company_info(s) ==
    LET company_details == s.details IN
    IF Len(company_details) < 3
    THEN [number_of_employees |-> None, sector |-> None, headquarters |-> None]
    ELSE [number_of_employees |-> company_details[1],
          sector |-> company_details[2],
          headquarters |-> company_details[3]]

\* 'token' in l
Contains(l, token) == \E i \in 1..Len(l) : l[i] = token
FirstOrNone(list) == IF Len(list) > 0 THEN list[1] ELSE None

\* get_company_urls: nothing in the try block can raise on hrefs found with
\* href=True, so the except branch is never taken.
get_company_urls(s) ==
    LET links == s.links
        linkedin_url == FirstOrNone(SelectSeq(links, LAMBDA l : Contains(l, "linkedin")))
        twitter_url == FirstOrNone(SelectSeq(links, LAMBDA l : Contains(l, "twitter")))
        instagram_url == FirstOrNone(SelectSeq(links, LAMBDA l : Contains(l, "instagram")))
        facebook_url == FirstOrNone(SelectSeq(links, LAMBDA l : Contains(l, "facebook")))
        company_url ==
            FirstOrNone(SelectSeq(links, LAMBDA l :
                l \notin {linkedin_url, twitter_url, instagram_url, facebook_url}))
    IN [company_website |-> company_url, linkedin |-> linkedin_url,
        facebook |-> facebook_url, twitter |-> twitter_url, instagram |-> instagram_url]

\* Faulty variant of scrape_one_company_data: a failed attribute group blanks the
\* whole record.
scrape_one_company_data_coupled(s) ==
    IF ~s.has_h1 THEN Raise("AttributeError")
    ELSE LET info == get_company_info(s)
             urls == get_company_urls(s)
             failed == info.number_of_employees = None /\ Len(s.details) < 3
         IN Ok([name |-> IF failed THEN None ELSE s.h1_string,
                number_of_employees |-> info.number_of_employees,
                sector |-> info.sector,
                headquarters |-> info.headquarters,
                company_website |-> IF failed THEN None ELSE urls.company_website,
                linkedin |-> IF failed THEN None ELSE urls.linkedin,
                facebook |-> urls.facebook,
                twitter |-> urls.twitter,
                instagram |-> urls.instagram])

\* The part of scrape_one_company_data after the fetch: soup.find(...) is
\* None when the h1 is absent and None.string raises AttributeError.
scrape_one_company_data(s) ==
    IF ~s.has_h1 THEN Raise("AttributeError")
    ELSE LET info == get_company_info(s)
             urls == get_company_urls(s)
         IN Ok([name |-> s.h1_string,
                number_of_employees |-> info.number_of_employees,
                sector |-> info.sector,
                headquarters |-> info.headquarters,
                company_website |-> urls.company_website,
                linkedin |-> urls.linkedin,
                facebook |-> urls.facebook,
                twitter |-> urls.twitter,
                instagram |-> urls.instagram])

\* Faulty variant of get_website_num_pages: a homepage without a readable page
\* count is taken to be a one-page site.
get_website_num_pages_lenient(s) ==
    IF ~s.pagenav \/ s.links = <<>> THEN Ok(1)
    ELSE LET segments == split(Last(s.links)) IN
         IF Len(segments) < 2 THEN Raise("IndexError")
         ELSE LET n == int(segments[Len(segments) - 1]) IN
              IF n.exc # "none" THEN Ok(1) ELSE n

\* The part of get_website_num_pages after the fetch.
get_website_num_pages(s) ==
    IF ~s.pagenav THEN Raise("AttributeError")
    ELSE IF s.links = <<>> THEN Raise("IndexError")
    ELSE LET last_page_url == Last(s.links)
             segments == split(last_page_url)
         IN IF Len(segments) < 2 THEN Raise("IndexError")
            ELSE int(segments[Len(segments) - 1])

\* Faulty variant of get_pages_url_list: range(1, number_of_pages) drops the last page.
get_pages_url_list_short(url, n) ==
    [page \in 1..(n - 1) |-> IF page = 1 THEN url ELSE url \o PagePath \o str(page) \o <<"/">>]

\* The loop of get_pages_url_list over range(1, number_of_pages + 1).
get_pages_url_list(url, n) ==
    [page \in 1..n |-> IF page = 1 THEN url ELSE url \o PagePath \o str(page) \o <<"/">>]

(***************************************************************************)
(* The crawl.                                                              *)
(***************************************************************************)
NoDataset == [written |-> FALSE, rows |-> <<>>]
NoDict == [kind |-> "nodict"]

Init ==
    /\ pc = "start"
    /\ raised = NoException
    /\ home_soup = NoSoup
    /\ number_of_pages = 0
    /\ pages_url_list = <<>>
    /\ page_idx = 0
    /\ fetched_pages = <<>>
    /\ soup = <<>>
    /\ company_idx = 0
    /\ company_soup = NoSoup
    /\ output_dict = NoDict
    /\ page_companies_list = <<>>
    /\ all_companies_list = <<>>
    /\ results_df = NoDataset

\* An exception nobody catches ends the script; nothing is written.
Abort(where, exc) ==
    /\ pc' = "aborted"
    /\ raised' = Exception(where, exc)

\* get_url_soup(homepage_url) inside get_website_num_pages
FetchHomepage ==
    /\ pc = "start"
    /\ \/ /\ Abort("get_website_num_pages", "URLError")
          /\ UNCHANGED home_soup
       \/ /\ \E h \in HomeDocs : home_soup' = h
          /\ pc' = "pagination"
          /\ UNCHANGED raised
    /\ UNCHANGED <<number_of_pages, pages_url_list, page_idx, fetched_pages, soup,
                   company_idx, company_soup, output_dict, page_companies_list,
                   all_companies_list, results_df>>

\* the rest of get_website_num_pages and the loop of get_pages_url_list
ParsePagination ==
    /\ pc = "pagination"
    /\ LET r == get_website_num_pages(home_soup) IN
       IF r.exc # "none"
       THEN /\ Abort("get_website_num_pages", r.exc)
            /\ UNCHANGED <<home_soup, number_of_pages, pages_url_list, page_idx>>
       ELSE /\ number_of_pages' = r.val
            /\ pages_url_list' = get_pages_url_list(homepage_url, r.val)
            /\ page_idx' = 1
            /\ home_soup' = NoSoup
            /\ pc' = "pages"
            /\ UNCHANGED raised
    /\ UNCHANGED <<fetched_pages, soup, company_idx, company_soup, output_dict,
                   page_companies_list, all_companies_list, results_df>>

\* for page_url in pages_url_list: soup = get_url_soup(page_url), and the
\* entry of scrape_page_companies
FetchPage ==
    /\ pc = "pages"
    /\ page_idx <= Len(pages_url_list)
    /\ \/ /\ Abort("CompaniesDataScraper", "URLError")
          /\ UNCHANGED <<fetched_pages, soup, company_idx, page_companies_list>>
       \/ /\ \E d \in ListingDocs :
                /\ soup' = d
                /\ fetched_pages' = Append(fetched_pages, d)
          /\ company_idx' = 1
          /\ page_companies_list' = <<>>
          /\ pc' = "companies"
          /\ UNCHANGED raised
    /\ UNCHANGED <<home_soup, number_of_pages, pages_url_list, page_idx, company_soup,
                   output_dict, all_companies_list, results_df>>

\* one iteration of the loop of scrape_page_companies
ScrapeCompany ==
    /\ pc = "companies"
    /\ company_idx <= Len(soup)
    /\ LET company_href == soup[company_idx] IN
       IF company_href = <<>>
       THEN /\ Abort("scrape_page_companies", "IndexError")
            /\ UNCHANGED <<company_idx, company_soup, output_dict, page_companies_list>>
       ELSE LET company_url == company_href[1] IN
            \/ /\ Abort("scrape_one_company_data", "URLError")
               /\ UNCHANGED <<company_idx, company_soup, output_dict, page_companies_list>>
            \/ \E d \in DetailDocs(company_url) :
                 LET r == scrape_one_company_data(d) IN
                 /\ company_soup' = d
                 /\ IF r.exc # "none"
                    THEN /\ Abort("scrape_one_company_data", r.exc)
                         /\ UNCHANGED <<company_idx, output_dict, page_companies_list>>
                    ELSE /\ output_dict' = r.val
                         /\ page_companies_list' = Append(page_companies_list, r.val)
                         /\ company_idx' = company_idx + 1
                         /\ UNCHANGED <<pc, raised>>
    /\ UNCHANGED <<home_soup, number_of_pages, pages_url_list, page_idx, fetched_pages,
                   soup, all_companies_list, results_df>>

\* Faulty variant of EndPage: the page's list replaces the accumulated list.
EndPage_overwrite ==
    /\ pc = "companies"
    /\ company_idx > Len(soup)
    /\ all_companies_list' = page_companies_list
    /\ page_idx' = page_idx + 1
    /\ pc' = "pages"
    /\ UNCHANGED <<raised, home_soup, number_of_pages, pages_url_list, fetched_pages,
                   soup, company_idx, company_soup, output_dict, page_companies_list,
                   results_df>>

\* return page_companies_list; all_companies_list.extend(page_companies_list)
EndPage ==
    /\ pc = "companies"
    /\ company_idx > Len(soup)
    /\ all_companies_list' = all_companies_list \o page_companies_list
    /\ page_idx' = page_idx + 1
    /\ pc' = "pages"
    /\ UNCHANGED <<raised, home_soup, number_of_pages, pages_url_list, fetched_pages,
                   soup, company_idx, company_soup, output_dict, page_companies_list,
                   results_df>>

\* results_df = pd.DataFrame(all_companies_list); results_df.to_csv(...)
Emit ==
    /\ pc = "pages"
    /\ page_idx > Len(pages_url_list)
    /\ results_df' = [written |-> TRUE, rows |-> all_companies_list]
    /\ pc' = "done"
    /\ UNCHANGED <<raised, home_soup, number_of_pages, pages_url_list, page_idx,
                   fetched_pages, soup, company_idx, company_soup, output_dict,
                   page_companies_list, all_companies_list>>

Next ==
    \/ FetchHomepage
    \/ ParsePagination
    \/ FetchPage
    \/ ScrapeCompany
    \/ EndPage
    \/ Emit

Spec == Init /\ [][Next]_vars


(***************************************************************************)
(* The pure functions under bounded inputs.  SpecPages applies the         *)
(* pagination arithmetic to every href of up to MaxHrefLen symbols;        *)
(* SpecDetail applies the extraction of a fetched detail page to every     *)
(* detail soup of DetailInputs.                                            *)
(***************************************************************************)
InitPages ==
    /\ pc = "pagination"
    /\ raised = NoException
    /\ home_soup \in PagesHomeDocs
    /\ number_of_pages = 0
    /\ pages_url_list = <<>>
    /\ page_idx = 0
    /\ fetched_pages = <<>>
    /\ soup = <<>>
    /\ company_idx = 0
    /\ company_soup = NoSoup
    /\ output_dict = NoDict
    /\ page_companies_list = <<>>
    /\ all_companies_list = <<>>
    /\ results_df = NoDataset

SpecPages == InitPages /\ [][ParsePagination]_vars

InitDetail ==
    /\ pc = "detail"
    /\ raised = NoException
    /\ home_soup = NoSoup
    /\ number_of_pages = 0
    /\ pages_url_list = <<>>
    /\ page_idx = 0
    /\ fetched_pages = <<>>
    /\ soup = <<>>
    /\ company_idx = 0
    /\ company_soup \in DetailInputs
    /\ output_dict = NoDict
    /\ page_companies_list = <<>>
    /\ all_companies_list = <<>>
    /\ results_df = NoDataset

\* scrape_one_company_data on a soup already fetched
ParseDetail ==
    /\ pc = "detail"
    /\ LET r == scrape_one_company_data(company_soup) IN
       IF r.exc # "none"
       THEN /\ Abort("scrape_one_company_data", r.exc)
            /\ UNCHANGED output_dict
       ELSE /\ output_dict' = r.val
            /\ pc' = "parsed"
            /\ UNCHANGED raised
    /\ UNCHANGED <<home_soup, number_of_pages, pages_url_list, page_idx, fetched_pages,
                   soup, company_idx, company_soup, page_companies_list,
                   all_companies_list, results_df>>

SpecDetail == InitDetail /\ [][ParseDetail]_vars


(***************************************************************************)
(* Properties.                                                             *)
(***************************************************************************)
NullRecord ==
    [name |-> None, number_of_employees |-> None, sector |-> None,
     headquarters |-> None, company_website |-> None, linkedin |-> None,
     facebook |-> None, twitter |-> None, instagram |-> None]
LinkFields == {"company_website", "linkedin", "twitter", "instagram", "facebook"}
SocialFields == LinkFields \ {"company_website"}

RECURSIVE Flatten(_)
Flatten(lists) == IF lists = <<>> THEN <<>> ELSE Head(lists) \o Flatten(Tail(lists))

\* C1: a failure of the fetch or of the parse of a company's detail page
\* does not abort the run; the company is represented by one record with
\* null fields, appended to the records of its page.
C1_CompanyFailureYieldsNullRecord ==
    raised.where = "scrape_one_company_data" =>
        /\ pc # "aborted"
        /\ page_companies_list # <<>>
        /\ Last(page_companies_list) = NullRecord

\* C2: a failure of the fetch of one listing page skips that page only; the
\* run is not aborted by it.
C2_PageFailureSkipsPageOnly ==
    raised.where = "CompaniesDataScraper" => pc # "aborted"

\* C3: when pagination discovery fails (the homepage fetch fails, the
\* pagination element is absent, its link list is empty, or the
\* second-to-last segment of the last link is not an integer) the run
\* aborts, and in a run that aborted there no listing page was fetched, no
\* record was created and no dataset was written.
IsIntegerText(s) ==
    LET digits == IF s # <<>> /\ Head(s) = "-" THEN Tail(s) ELSE s IN
    digits # <<>> /\ \A i \in 1..Len(digits) : IsDigit(digits[i])
DiscoveryBroken(h) ==
    \/ ~h.pagenav
    \/ h.links = <<>>
    \/ LET segments == split(Last(h.links)) IN
       Len(segments) >= 2 /\ ~IsIntegerText(segments[Len(segments) - 1])
NothingProcessed ==
    /\ fetched_pages = <<>>
    /\ page_companies_list = <<>>
    /\ all_companies_list = <<>>
    /\ output_dict = NoDict
    /\ ~results_df.written
C3_DiscoveryFailureAborts ==
    [][ /\ (pc = "start" /\ raised' # NoException) => pc' = "aborted"
        /\ (pc = "pagination" /\ DiscoveryBroken(home_soup)) => pc' = "aborted"
        /\ raised'.where = "get_website_num_pages" => (pc' = "aborted" /\ NothingProcessed')
      ]_vars
C3_Witness ==
    /\ pc = "aborted"
    /\ raised = Exception("get_website_num_pages", "ValueError")
    /\ home_soup.pagenav
    /\ Len(home_soup.links) = 2

\* C4: when the last link of the pagination block ends in the digits of K
\* between two slashes (or from the start of the href to its final slash),
\* discovery returns exactly K page URLs, the first the homepage URL and
\* the k-th, 1 < k <= K, the homepage URL followed by page/k/.
EncodedCountStarts(href) ==
    {i \in 1..(Len(href) - 1) :
        /\ href[Len(href)] = "/"
        /\ i = 1 \/ href[i - 1] = "/"
        /\ \A j \in i..(Len(href) - 1) : IsDigit(href[j])}
IsPageList(list, K) ==
    /\ Len(list) = K
    /\ \A k \in 1..K :
          list[k] = IF k = 1 THEN homepage_url
                    ELSE homepage_url \o PagePath \o str(k) \o <<"/">>
C4_PaginationArithmetic ==
    [][ (pc = "pagination" /\ home_soup.pagenav /\ home_soup.links # <<>>) =>
          LET href == Last(home_soup.links) IN
          \A i \in EncodedCountStarts(href) :
              /\ pc' = "pages"
              /\ IsPageList(pages_url_list', DigitsValue(SubSeq(href, i, Len(href) - 1)))
      ]_vars
C4_Witness ==
    /\ pc = "pages"
    /\ number_of_pages = 12
    /\ Len(pages_url_list) = 12
    /\ pages_url_list[12] = homepage_url \o PagePath \o <<"1", "2", "/">>

\* C5: the five link fields are pairwise disjoint (no URL is assigned to
\* two categories), and company_website is non-null only when some input
\* URL is claimed by none of the four social categories.
C5_ClassificationPartition ==
    pc = "parsed" =>
        /\ \A f, g \in LinkFields :
              (f # g /\ output_dict[f] # None) => output_dict[f] # output_dict[g]
        /\ output_dict.company_website # None =>
              \E i \in 1..Len(company_soup.links) :
                 \A f \in SocialFields : company_soup.links[i] # output_dict[f]

\* C6 (as claimed): the emitted rows are one record per bookmark link, page
\* by page and in document order within the page, so the number of rows is
\* the number of bookmark links on the fetched pages.
AllBookmarks(doc) == Flatten(doc)
FirstBookmarks(doc) == [i \in 1..Len(doc) |-> doc[i][1]]
RowsMatch(urls) ==
    /\ results_df.written
    /\ Len(results_df.rows) = Len(urls)
    /\ \A i \in 1..Len(urls) : results_df.rows[i].name = SiteName(urls[i])
C6_OneRowPerBookmarkLink ==
    pc = "done" =>
        RowsMatch(Flatten([p \in 1..Len(fetched_pages) |-> AllBookmarks(fetched_pages[p])]))

\* C6 (amended): the emitted rows are one record per article container,
\* made from the first bookmark link of the container, page by page and in
\* document order within the page, without deduplication; the number of
\* rows is the number of article containers on the fetched pages, and every
\* page of the page list was fetched.
C6_OneRowPerArticle ==
    pc = "done" =>
        /\ Len(fetched_pages) = Len(pages_url_list)
        /\ RowsMatch(Flatten([p \in 1..Len(fetched_pages) |-> FirstBookmarks(fetched_pages[p])]))
C6_Witness ==
    /\ pc = "done"
    /\ Len(fetched_pages) = 2
    /\ fetched_pages[1] = << <<CoA, CoB>>, <<CoA>> >>
    /\ fetched_pages[2] = << <<CoA>> >>
    /\ Len(results_df.rows) = 3

\* C7: a detail page without any sub-heading element yields a record whose
\* number_of_employees, sector and headquarters are null, whose name and
\* link fields are those the page gives with its sub-headings present, and
\* appending it leaves every earlier record as it was.
SameNameAndLinks(r1, r2) ==
    /\ r1.name = r2.name
    /\ \A f \in LinkFields : r1[f] = r2[f]
C7_MissingSubHeadingsIsolated ==
    [][ ( /\ pc = "companies"
          /\ Len(page_companies_list') = Len(page_companies_list) + 1
          /\ company_soup'.details = <<>> ) =>
        LET rec == Last(page_companies_list')
            full == scrape_one_company_data([company_soup' EXCEPT !.details = ThreeDetails])
        IN /\ rec.number_of_employees = None
           /\ rec.sector = None
           /\ rec.headquarters = None
           /\ rec.name = company_soup'.h1_string
           /\ full.exc = "none"
           /\ full.val.sector = <<"Tech">>
           /\ SameNameAndLinks(rec, full.val)
           /\ SubSeq(page_companies_list', 1, Len(page_companies_list)) = page_companies_list
           /\ all_companies_list' = all_companies_list
      ]_vars
C7_Witness ==
    /\ pc = "companies"
    /\ Len(page_companies_list) = 2
    /\ company_soup # NoSoup
    /\ company_soup.details = <<>>
    /\ page_companies_list[1].sector = <<"Tech">>
    /\ page_companies_list[2].sector = None
    /\ page_companies_list[2].linkedin = LinkedinUrl
    /\ page_companies_list[2].name = SiteName(CoA)

\* C8: a fetched detail page without the heading element is not fatal: the
\* record has a null name and the attributes and link fields extracted from
\* the page.
C8_MissingNameNotFatal ==
    (company_soup # NoSoup /\ ~company_soup.has_h1) =>
        /\ pc # "aborted"
        /\ output_dict # NoDict
        /\ output_dict.name = None
        /\ output_dict.sector = get_company_info(company_soup).sector
        /\ output_dict.linkedin = get_company_urls(company_soup).linkedin

\* C9 (as claimed): whenever the number of sub-heading elements differs
\* from three, the three attributes are null; with exactly three they are
\* the three texts in document order.
AttributesNull(r) ==
    r.number_of_employees = None /\ r.sector = None /\ r.headquarters = None
AttributesAreFirstThree(r, details) ==
    /\ r.number_of_employees = details[1]
    /\ r.sector = details[2]
    /\ r.headquarters = details[3]
C10_MissingBookmarkSkipsContainer ==
    raised.where = "scrape_page_companies" => pc # "aborted"

====
